---- MODULE Spec2Model ----
(***************************************************************************)
(* Model of backend/chunker.py: the Chunker policy object, the length      *)
(* segmenter (a Python generator, advanced one loop iteration at a time),  *)
(* the unimplemented time segmenter and the batch entry point get_chunks.  *)
(*                                                                         *)
(* Positions are 1-based here: Python index i is position i + 1.           *)
(***************************************************************************)
EXTENDS Integers, Sequences, FiniteSets, TLC

VARIABLES chunker, pc, call, items, gens, cur, table, raised, given, earlier

vars ==
    <<chunker, pc, call, items, gens, cur, table, raised, given, earlier>>

-----------------------------------------------------------------------------
(* Bounds of the model.                                                    *)

MaxLines == 3

MaxThreshold == 3

MaxItems == 2

MaxOneWordLines == 15

-----------------------------------------------------------------------------
(* Python values: a str carries its characters, an int its number; None    *)
(* and the float NaN carry nothing.                                        *)

PyStr(cs) == [kind |-> "str", chars |-> cs, num |-> 0]

PyInt(n) == [kind |-> "int", chars |-> <<>>, num |-> n]

None == [kind |-> "NoneType", chars |-> <<>>, num |-> 0]

NaN == [kind |-> "float", chars |-> <<>>, num |-> 0]

\* A value has the str methods strip and split.
IsText(v) == v.kind = "str"

\* str.strip() with no argument removes leading and trailing whitespace.
RECURSIVE LStrip(_)
LStrip(cs) ==
    IF cs # <<>> /\ Head(cs) = " " THEN LStrip(Tail(cs)) ELSE cs

RECURSIVE RStrip(_)
RStrip(cs) ==
    IF cs # <<>> /\ cs[Len(cs)] = " "
    THEN RStrip(SubSeq(cs, 1, Len(cs) - 1))
    ELSE cs

Strip(cs) == RStrip(LStrip(cs))

\* str.split() with no argument: the maximal runs of non-whitespace
\* characters, in order.  word is the run being read, done the runs read.
RECURSIVE SplitFrom(_, _, _)
SplitFrom(cs, word, done) ==
    IF cs = <<>>
    THEN IF word = <<>> THEN done ELSE Append(done, word)
    ELSE IF Head(cs) = " "
         THEN SplitFrom(Tail(cs), <<>>,
                        IF word = <<>> THEN done ELSE Append(done, word))
         ELSE SplitFrom(Tail(cs), Append(word, Head(cs)), done)

Split(cs) == SplitFrom(cs, <<>>, <<>>)

\* " ".join(parts) for a list of str values.
RECURSIVE Join(_)
Join(parts) ==
    IF parts = <<>> THEN <<>>
    ELSE IF Len(parts) = 1 THEN parts[1].chars
    ELSE parts[1].chars \o <<" ">> \o Join(Tail(parts))

\* len(subtitle.strip().split())
StripSplitLen(v) == Len(Split(Strip(v.chars)))

\* len(line.split())
SplitLen(v) == Len(Split(v.chars))

\* sum([len(subtitle.strip().split()) for subtitle in subtitles])
RECURSIVE SumStripSplitLen(_)
SumStripSplitLen(vs) ==
    IF vs = <<>> THEN 0
    ELSE StripSplitLen(vs[1]) + SumStripSplitLen(Tail(vs))

\* sum(len(line.split()) for line in state["block"])
RECURSIVE SumSplitLen(_)
SumSplitLen(vs) ==
    IF vs = <<>> THEN 0 ELSE SplitLen(vs[1]) + SumSplitLen(Tail(vs))

\* list.index(x): the first position holding a value equal to x.
Index(vs, x) ==
    CHOOSE j \in 1..Len(vs) :
        /\ vs[j] = x
        /\ \A k \in 1..(j - 1) : vs[k] # x

-----------------------------------------------------------------------------
(* Chunker.__init__                                                        *)

Strategies == {"time", "length"}

DefaultExpectedLength == 225

DefaultMinTolerableLength == 150

DefaultExpectedTime == 60

DefaultMinTolerableTime == 45

\* self._default_values_dict
DefaultValues(chunk_by) ==
    IF chunk_by = "length"
    THEN [expected_threshold |-> DefaultExpectedLength,
          min_tolerable_threshold |-> DefaultMinTolerableLength]
    ELSE [expected_threshold |-> DefaultExpectedTime,
          min_tolerable_threshold |-> DefaultMinTolerableTime]

\* A mapping that sends both strategies to the length segmenter.
FuncMappingAlwaysLength(chunk_by) == "_chunk_by_length"

\* self._func_mapping_dict
FuncMapping(chunk_by) ==
    IF chunk_by = "length" THEN "_chunk_by_length" ELSE "_chunk_by_time"

\* A lookup that ignores what the caller supplied.
KwGetDefault(kwargs, key, default) == default

\* kwargs.get(key, default)
KwGet(kwargs, key, default) ==
    IF key \in DOMAIN kwargs THEN kwargs[key] ELSE default

NoChunker ==
    [chunk_by |-> "", expected_threshold |-> 0, min_tolerable_threshold |-> 0]

NewChunker(chunk_by, kwargs) ==
    [chunk_by |-> chunk_by,
     expected_threshold |->
         KwGet(kwargs, "expected_threshold",
               DefaultValues(chunk_by).expected_threshold),
     min_tolerable_threshold |->
         KwGet(kwargs, "min_tolerable_threshold",
               DefaultValues(chunk_by).min_tolerable_threshold)]

-----------------------------------------------------------------------------
(* Chunker._chunk_by_length: the generator's frame.  block,                *)
(* length_of_block and covered_length are the state dict; idx is the       *)
(* number of lines the for loop has visited; out is what it has yielded.   *)
(* positions and log are history: the position each element of block came  *)
(* from, and for each yielded record the branch that yielded it, the line  *)
(* it was yielded at and the lines and positions of its block.             *)

NewGenerator ==
    [pc |-> "created", block |-> <<>>, positions |-> <<>>,
     length_of_block |-> 0, covered_length |-> 0, total_length |-> 0,
     start_times |-> <<>>, end_times |-> <<>>, idx |-> 0,
     out |-> <<>>, log |-> <<>>, exc |-> "none"]

\* pack(videoId=..., block=..., length_of_block=..., start_time=..., end_time=...)
Pack(video_id, block, length_of_block, start_time, end_time) ==
    [videoId |-> video_id, block |-> block,
     length_of_block |-> length_of_block,
     start_time |-> start_time, end_time |-> end_time]

\* The record of the except AttributeError handler.
Sentinel(video_id) == Pack(video_id, NaN, NaN, NaN, NaN)

\* A handler that lets the AttributeError through.
ExceptReraise(item, g) == [g EXCEPT !.pc = "raised", !.exc = "AttributeError"]

\* except AttributeError: yield the sentinel; the generator then returns.
ExceptAttributeError(item, g) ==
    [g EXCEPT !.pc = "done",
              !.out = Append(@, Sentinel(item.videoId)),
              !.log = Append(@, [branch |-> "except", at |-> g.idx,
                                 lines |-> <<>>, positions |-> <<>>])]

\* An exception no handler of the generator catches.
Raise(g, exc) == [g EXCEPT !.pc = "raised", !.exc = exc]

\* A precomputation of total_length that skips what is not text and so
\* never raises.
TotalLengthNeverRaises(subtitles) == FALSE

\* The precomputation of total_length calls strip on every line, so it
\* raises AttributeError when some line is not text.
TotalLengthRaises(subtitles) ==
    \E i \in 1..Len(subtitles) : ~IsText(subtitles[i])

\* The close condition without its first conjunct.
CloseConditionNoLength(c, st) ==
    (st.total_length - st.covered_length) >= c.min_tolerable_threshold

\* The close condition without its second conjunct.
CloseConditionNoRemainder(c, st) ==
    st.length_of_block >= c.expected_threshold

\* if length_of_block >= expected_threshold
\*    and (total_length - covered_length) >= min_tolerable_threshold
CloseCondition(c, st) ==
    /\ st.length_of_block >= c.expected_threshold
    /\ (st.total_length - st.covered_length) >= c.min_tolerable_threshold

\* The tail-merge condition with a strict comparison.
TailMergeStrict(c, st) ==
    (st.total_length - st.covered_length) < c.min_tolerable_threshold

\* elif (total_length - covered_length) <= min_tolerable_threshold
TailMergeCondition(c, st) ==
    (st.total_length - st.covered_length) <= c.min_tolerable_threshold

\* subtitles[idx:] starts at the line being visited (position i).
TailStart(i) == i

\* The size read from the running counter instead of recomputed.
BlockSizeRunning(st) == st.length_of_block

\* length_of_block=sum(len(line.split()) for line in state["block"])
BlockSize(st) == SumSplitLen(st.block)

\* block=" ".join(state["block"])
BlockText(st) == Join(st.block)

\* subtitles.index(state["block"][0])
StartIndex(subtitles, st) == Index(subtitles, st.block[1])

\* end_times[idx] in both branches.
EndIndexCurrent(branch, st) == st.idx

\* end_times[idx] in the close branch, end_times[-1] in the tail-merge one.
EndIndex(branch, st) ==
    IF branch = "close" THEN st.idx ELSE Len(st.end_times)

\* yield pack(...): the keyword arguments are evaluated in order, so a
\* block holding a non-str fails in join (TypeError) before the lookups,
\* and a lookup past the end of the times fails with IndexError.  After a
\* close the block is reset; after a tail-merge the loop breaks.
Yield(item, st, branch) ==
    IF \E j \in 1..Len(st.block) : ~IsText(st.block[j])
    THEN Raise(st, "TypeError")
    ELSE IF \/ StartIndex(item.subtitles, st) > Len(st.start_times)
            \/ EndIndex(branch, st) > Len(st.end_times)
    THEN Raise(st, "IndexError")
    ELSE LET rec == Pack(item.videoId,
                         PyStr(BlockText(st)),
                         PyInt(BlockSize(st)),
                         PyInt(st.start_times[StartIndex(item.subtitles, st)]),
                         PyInt(st.end_times[EndIndex(branch, st)]))
             entry == [branch |-> branch, at |-> st.idx,
                       lines |-> st.block, positions |-> st.positions]
         IN  IF branch = "close"
             THEN [st EXCEPT !.out = Append(@, rec),
                             !.log = Append(@, entry),
                             !.block = <<>>, !.positions = <<>>,
                             !.length_of_block = 0]
             ELSE [st EXCEPT !.out = Append(@, rec),
                             !.log = Append(@, entry),
                             !.pc = "done"]

\* From the first next() to the for statement: the state dict, total_length
\* and start_times, end_times = zip(*timestamps), which fails to unpack
\* (ValueError) when there is no timestamp.
Begin(item, g) ==
    IF TotalLengthRaises(item.subtitles)
    THEN ExceptAttributeError(item, g)
    ELSE IF item.timestamps = <<>>
    THEN Raise(g, "ValueError")
    ELSE [g EXCEPT
            !.pc = "loop",
            !.total_length = SumStripSplitLen(item.subtitles),
            !.start_times =
                [i \in 1..Len(item.timestamps) |-> item.timestamps[i][1]],
            !.end_times =
                [i \in 1..Len(item.timestamps) |-> item.timestamps[i][2]]]

\* An end of the for loop that emits the open block, as a close would.
ExhaustFlush(item, g) ==
    IF g.block = <<>> THEN [g EXCEPT !.pc = "done"]
    ELSE [Yield(item, g, "close") EXCEPT !.pc = "done"]

\* The for loop has visited every line and never broke: the generator
\* returns, whatever the open block holds.
Exhaust(item, g) == [g EXCEPT !.pc = "done"]

\* One turn of the for loop, or its end when every line has been visited.
Iterate(c, item, g) ==
    IF g.idx = Len(item.subtitles)
    THEN Exhaust(item, g)
    ELSE
    LET i == g.idx + 1
        subtitle == item.subtitles[i]
        appended == [g EXCEPT !.block = Append(@, subtitle),
                              !.positions = Append(@, i),
                              !.idx = i]
    IN  IF ~IsText(subtitle)
        THEN ExceptAttributeError(item, appended)
        ELSE
        LET st == [appended EXCEPT
                      !.length_of_block = @ + StripSplitLen(subtitle),
                      !.covered_length = @ + StripSplitLen(subtitle)]
            n == Len(item.subtitles)
            merged == [st EXCEPT
                          !.block = @ \o SubSeq(item.subtitles, TailStart(i), n),
                          !.positions =
                              @ \o [k \in 1..(n - TailStart(i) + 1)
                                        |-> TailStart(i) + k - 1]]
        IN  IF CloseCondition(c, st) THEN Yield(item, st, "close")
            ELSE IF TailMergeCondition(c, st) THEN Yield(item, merged, "tail")
            ELSE st

-----------------------------------------------------------------------------
(* Chunker._chunk_by_time                                                  *)

\* raise NotImplementedError("Implementation in progress"): a plain
\* function, so the call itself raises and no generator is made.
ChunkByTimeRaises == "NotImplementedError"

-----------------------------------------------------------------------------
(* Chunker.get_chunks: the table.                                          *)

\* Rows numbered from 1.
FrameRowsOneBased(out) ==
    [j \in 1..Len(out) |->
        [videoId |-> out[j].videoId, block_number |-> j,
         block |-> out[j].block, length_of_block |-> out[j].length_of_block,
         start_time |-> out[j].start_time, end_time |-> out[j].end_time]]

\* make_df(blocks) followed, after the concat, by reset_index and the rename
\* of "index": each frame keeps its own 0-based RangeIndex through
\* pd.concat, and that index becomes block_number.
FrameRows(out) ==
    [j \in 1..Len(out) |->
        [videoId |-> out[j].videoId, block_number |-> j - 1,
         block |-> out[j].block, length_of_block |-> out[j].length_of_block,
         start_time |-> out[j].start_time, end_time |-> out[j].end_time]]

\* pd.concat of the frames, in the order of the items.
RECURSIVE Concat(_)
Concat(gs) ==
    IF gs = <<>> THEN <<>>
    ELSE FrameRows(gs[1].out) \o Concat(Tail(gs))

-----------------------------------------------------------------------------
(* The inputs.                                                             *)

\* The lines of a transcript: "", "a", " a  b" and a missing line.
LineValues ==
    {PyStr(<<>>), PyStr(<<"a">>), PyStr(<<" ", "a", " ", " ", "b">>), None}

SeqsUpTo(S, n) == UNION {[1..k -> S] : k \in 0..n}

\* n intervals of length 1 in playback order, gap apart.
Intervals(n, gap) ==
    [i \in 1..n |-> <<(i - 1) * (1 + gap), (i - 1) * (1 + gap) + 1>>]

\* The items a segmenter is called with: as many intervals as lines, or one
\* fewer, or one more.
SegmentItems ==
    {[videoId |-> "v1", subtitles |-> subs, timestamps |-> Intervals(n, gap)] :
        <<subs, n, gap>> \in
            {t \in SeqsUpTo(LineValues, MaxLines) \X (0..(MaxLines + 1)) \X {0, 1} :
                t[2] \in {Len(t[1]) - 1, Len(t[1]), Len(t[1]) + 1}}}

\* One-word lines, all different.
Letters ==
    <<"a", "b", "c", "d", "e", "f", "g", "h", "i", "j",
      "k", "l", "m", "n", "o", "p", "q", "r", "s", "t">>

\* The items of n one-word lines with the intervals (i, i + 1).
OneWordItems ==
    {[videoId |-> "v1",
      subtitles |-> [i \in 1..n |-> PyStr(<<Letters[i]>>)],
      timestamps |-> Intervals(n, 0)] : n \in 0..MaxOneWordLines}

\* The transcripts of the rows get_chunks is given: no line, one or two
\* lines "a", and a line followed by a missing one (the NaN the transcript
\* client stores).
BatchSubtitles ==
    {<<>>, <<PyStr(<<"a">>)>>,
     <<PyStr(<<"a">>), PyStr(<<"a">>)>>, <<PyStr(<<"a">>), NaN>>}

\* The rows of the frame get_chunks is given, under two item ids: as many
\* intervals as lines, and one row of two lines with a single interval.
BatchItems ==
    {[videoId |-> v, subtitles |-> subs,
      timestamps |-> Intervals(Len(subs), 1)] :
        <<v, subs>> \in {"v1", "v2"} \X BatchSubtitles}
    \cup
    {[videoId |-> v, subtitles |-> <<PyStr(<<"a">>), PyStr(<<"a">>)>>,
      timestamps |-> Intervals(1, 1)] : v \in {"v1", "v2"}}

\* The items of two generators consumed in turns.
InterleavedItems(v) == {item \in BatchItems : item.videoId = v}

ThresholdNames == {"expected_threshold", "min_tolerable_threshold"}

Thresholds == (0 - 1)..MaxThreshold

\* **kwargs: any of the two thresholds, none, or both; and the policy
\* expected=10, min_tolerable=5.
Kwargs ==
    UNION {[D -> Thresholds] : D \in SUBSET ThresholdNames}
    \cup {[expected_threshold |-> 10, min_tolerable_threshold |-> 5]}

ChunkByValues == Strategies \cup {"words"}

-----------------------------------------------------------------------------
(* The state machine.  pc is where the caller is: "new" before the         *)
(* constructor, "ready" after it, "driving" while it consumes one          *)
(* generator, "comprehension" inside the list comprehension of get_chunks, *)
(* "returned", or "raised" with the exception in raised.  given is what    *)
(* the constructor was called with; earlier holds the tables earlier       *)
(* calls of get_chunks returned.                                           *)

Init ==
    /\ chunker = NoChunker
    /\ pc = "new"
    /\ call = "none"
    /\ items = <<>>
    /\ gens = <<>>
    /\ cur = 0
    /\ table = <<>>
    /\ raised = "none"
    /\ given = [chunk_by |-> "", kwargs |-> [key \in {} |-> 0]]
    /\ earlier = <<>>

\* Chunker.__init__(chunk_by, **kwargs): the assert, then the fields.
ChunkerInit(chunk_by, kwargs) ==
    /\ IF chunk_by \in Strategies
       THEN /\ chunker' = NewChunker(chunk_by, kwargs)
            /\ pc' = "ready"
            /\ raised' = raised
       ELSE /\ chunker' = chunker
            /\ pc' = "raised"
            /\ raised' = "AssertionError"
    /\ given' = [chunk_by |-> chunk_by, kwargs |-> kwargs]
    /\ UNCHANGED <<call, items, gens, cur, table, earlier>>

Construct ==
    /\ pc = "new"
    /\ \E chunk_by \in ChunkByValues, kwargs \in Kwargs :
           ChunkerInit(chunk_by, kwargs)

\* getattr(self, self._func_mapping_dict[self.chunk_by])(video_id,
\* subtitles, timestamps) on one item, the caller then consuming the result.
Dispatch(item) ==
    /\ call' = "segment"
    /\ items' = <<item>>
    /\ IF FuncMapping(chunker.chunk_by) = "_chunk_by_time"
       THEN /\ pc' = "raised"
            /\ raised' = ChunkByTimeRaises
            /\ UNCHANGED <<gens, cur>>
       ELSE /\ pc' = "driving"
            /\ gens' = <<NewGenerator>>
            /\ cur' = 1
            /\ raised' = raised
    /\ UNCHANGED <<chunker, table, given, earlier>>

CallSegment ==
    /\ pc = "ready"
    /\ \E item \in SegmentItems \cup OneWordItems : Dispatch(item)

\* The same call on two items before either generator is consumed; the
\* caller then takes next() from either, in any order.
CallTwo ==
    /\ pc = "ready"
    /\ \E first \in InterleavedItems("v1"), second \in InterleavedItems("v2") :
           /\ call' = "interleave"
           /\ items' = <<first, second>>
           /\ IF FuncMapping(chunker.chunk_by) = "_chunk_by_time"
              THEN /\ pc' = "raised"
                   /\ raised' = ChunkByTimeRaises
                   /\ UNCHANGED <<gens, cur>>
              ELSE /\ pc' = "driving"
                   /\ gens' = <<NewGenerator, NewGenerator>>
                   /\ cur' = 1
                   /\ raised' = raised
           /\ UNCHANGED <<chunker, table, given, earlier>>

\* The caller turns to the other generator, which has not ended.
Switch ==
    /\ pc = "driving"
    /\ call = "interleave"
    /\ gens[3 - cur].pc \in {"created", "loop"}
    /\ cur' = 3 - cur
    /\ UNCHANGED <<chunker, pc, call, items, gens, table, raised, given,
                   earlier>>

\* get_chunks(scrapped_df): the rows of the frame, in order.
CallGetChunks ==
    /\ pc = "ready"
    /\ \E rows \in SeqsUpTo(BatchItems, MaxItems) :
           /\ call' = "get_chunks"
           /\ items' = rows
           /\ pc' = "comprehension"
           /\ UNCHANGED <<chunker, gens, cur, table, raised, given, earlier>>

\* get_chunks again, on the same frame, after it returned a table.
CallGetChunksAgain ==
    /\ pc = "returned"
    /\ call = "get_chunks"
    /\ earlier = <<>>
    /\ earlier' = <<table>>
    /\ pc' = "comprehension"
    /\ gens' = <<>>
    /\ cur' = 0
    /\ table' = <<>>
    /\ UNCHANGED <<chunker, call, items, raised, given>>

\* list(blocks) has consumed the generator of the row being worked on.
FrameDone == IF cur = 0 THEN TRUE ELSE gens[cur].pc = "done"

\* The list comprehension takes the next row of the frame and calls the
\* segmenter the strategy names; list(blocks) then consumes the generator.
GetChunksNextItem ==
    /\ pc = "comprehension"
    /\ cur < Len(items)
    /\ FrameDone
    /\ IF FuncMapping(chunker.chunk_by) = "_chunk_by_time"
       THEN /\ pc' = "raised"
            /\ raised' = ChunkByTimeRaises
            /\ UNCHANGED <<gens, cur>>
       ELSE /\ gens' = Append(gens, NewGenerator)
            /\ cur' = cur + 1
            /\ UNCHANGED <<pc, raised>>
    /\ UNCHANGED <<chunker, call, items, table, given, earlier>>

\* A step that writes the state dict of the generator consumed into every
\* generator, as if the dict were kept on the Chunker.
AdvanceSharedState(g) ==
    /\ gens' = [k \in DOMAIN gens |->
                  IF k = cur THEN g
                  ELSE [gens[k] EXCEPT
                           !.block = g.block,
                           !.positions = g.positions,
                           !.length_of_block = g.length_of_block,
                           !.covered_length = g.covered_length]]
    /\ IF g.pc = "raised"
       THEN pc' = "raised" /\ raised' = g.exc
       ELSE IF /\ g.pc = "done"
               /\ call # "get_chunks"
               /\ \A k \in DOMAIN gens \ {cur} : gens[k].pc = "done"
       THEN pc' = "returned" /\ raised' = raised
       ELSE UNCHANGED <<pc, raised>>
    /\ UNCHANGED <<chunker, call, items, cur, table, given, earlier>>

\* What a step of the generator being consumed does to its caller: an
\* uncaught exception reaches it; when the generators the caller consumes
\* itself have all ended, it is done.
Advance(g) ==
    /\ gens' = [gens EXCEPT ![cur] = g]
    /\ IF g.pc = "raised"
       THEN pc' = "raised" /\ raised' = g.exc
       ELSE IF /\ g.pc = "done"
               /\ call # "get_chunks"
               /\ \A k \in DOMAIN gens \ {cur} : gens[k].pc = "done"
       THEN pc' = "returned" /\ raised' = raised
       ELSE UNCHANGED <<pc, raised>>
    /\ UNCHANGED <<chunker, call, items, cur, table, given, earlier>>

GenBegin ==
    /\ pc \in {"driving", "comprehension"}
    /\ cur >= 1
    /\ gens[cur].pc = "created"
    /\ Advance(Begin(items[cur], gens[cur]))

GenIter ==
    /\ pc \in {"driving", "comprehension"}
    /\ cur >= 1
    /\ gens[cur].pc = "loop"
    /\ Advance(Iterate(chunker, items[cur], gens[cur]))

\* pd.concat(...) and index_df(df).  pd.concat raises ValueError when given
\* no frame; when no frame has a row the result has no videoId column and
\* set_index raises KeyError.
GetChunksConcat ==
    /\ pc = "comprehension"
    /\ cur = Len(items)
    /\ FrameDone
    /\ IF items = <<>>
       THEN pc' = "raised" /\ raised' = "ValueError" /\ table' = table
       ELSE IF Concat(gens) = <<>>
       THEN pc' = "raised" /\ raised' = "KeyError" /\ table' = table
       ELSE pc' = "returned" /\ raised' = raised /\ table' = Concat(gens)
    /\ UNCHANGED <<chunker, call, items, gens, cur, given, earlier>>

Next ==
    \/ Construct
    \/ CallSegment
    \/ CallTwo
    \/ Switch
    \/ CallGetChunks
    \/ CallGetChunksAgain
    \/ GetChunksNextItem
    \/ GenBegin
    \/ GenIter
    \/ GetChunksConcat

Spec == Init /\ [][Next]_vars

-----------------------------------------------------------------------------
(* Vocabulary of the properties.                                           *)

AllText(subtitles) == \A i \in 1..Len(subtitles) : IsText(subtitles[i])

\* All lines text, as many intervals as lines.
WellFormed(item) ==
    /\ AllText(item.subtitles)
    /\ Len(item.timestamps) = Len(item.subtitles)

\* start[i] <= end[i] <= start[i+1]
Monotonic(timestamps) ==
    /\ \A i \in 1..Len(timestamps) : timestamps[i][1] <= timestamps[i][2]
    /\ \A i \in 1..(Len(timestamps) - 1) :
           timestamps[i][2] <= timestamps[i + 1][1]

TotalWords(item) == SumStripSplitLen(item.subtitles)

Degenerate(rec) == rec.block.kind # "str"

Finished(g) == g.pc \in {"done", "raised"}

TailFired(g) == \E j \in 1..Len(g.log) : g.log[j].branch = "tail"

\* The contributing lines of the records yielded so far, in emission order.
RECURSIVE EmittedLines(_)
EmittedLines(log) ==
    IF log = <<>> THEN <<>> ELSE log[1].lines \o EmittedLines(Tail(log))

\* The generator of an item run to its end on its own.
RECURSIVE RunAlone(_, _, _)
RunAlone(c, item, g) ==
    IF Finished(g) THEN g
    ELSE RunAlone(c, item,
                  IF g.pc = "created" THEN Begin(item, g)
                  ELSE Iterate(c, item, g))

Started == 1..Len(gens)

-----------------------------------------------------------------------------
(* C1: for a well-formed item, the contributing lines of the chunks        *)
(* emitted, concatenated in emission order, are the item's lines, each     *)
(* once and in input order; only a trailing open block left when the loop  *)
(* exhausts may be missing.  The tail-merge of the code appends            *)
(* subtitles[idx:], which repeats the line being visited.                  *)
C1_EveryLineExactlyOnce ==
    \A k \in Started :
        (WellFormed(items[k]) /\ gens[k].pc = "done") =>
            EmittedLines(gens[k].log)
                \o (IF TailFired(gens[k]) THEN <<>> ELSE gens[k].block)
            = items[k].subtitles

-----------------------------------------------------------------------------
(* C2: with 0 <= min_tolerable_threshold < expected_threshold, every       *)
(* chunk emitted for a well-formed item of at least                        *)
(* min_tolerable_threshold words has size >= min_tolerable_threshold.      *)
C2_NoBlockTooShort ==
    \A k \in Started :
        (/\ 0 <= chunker.min_tolerable_threshold
         /\ chunker.min_tolerable_threshold < chunker.expected_threshold
         /\ WellFormed(items[k])
         /\ TotalWords(items[k]) >= chunker.min_tolerable_threshold) =>
            \A j \in 1..Len(gens[k].out) :
                ~Degenerate(gens[k].out[j]) =>
                    gens[k].out[j].length_of_block.num
                        >= chunker.min_tolerable_threshold

\* A close followed by the tail-merge that ends the item, under a positive
\* minimum.
C2_Witness ==
    \E k \in Started :
        /\ 1 <= chunker.min_tolerable_threshold
        /\ chunker.min_tolerable_threshold < chunker.expected_threshold
        /\ WellFormed(items[k])
        /\ TotalWords(items[k]) >= chunker.min_tolerable_threshold
        /\ gens[k].pc = "done"
        /\ Len(gens[k].log) = 2
        /\ gens[k].log[1].branch = "close"
        /\ gens[k].log[2].branch = "tail"

-----------------------------------------------------------------------------
(* C3: for a well-formed item, also one in which a line text occurs at     *)
(* several positions, every chunk's start_time is the start of the         *)
(* interval of its first contributing line and its end_time the end of     *)
(* the interval of its last contributing line.                             *)
C3_TimesOfFirstAndLastLine ==
    \A k \in Started :
        WellFormed(items[k]) =>
            \A j \in 1..Len(gens[k].out) :
                LET ps == gens[k].log[j].positions
                IN  /\ gens[k].out[j].start_time.num
                           = items[k].timestamps[ps[1]][1]
                    /\ gens[k].out[j].end_time.num
                           = items[k].timestamps[ps[Len(ps)]][2]

-----------------------------------------------------------------------------
(* C4: for a well-formed item with monotonic intervals, every chunk has    *)
(* start_time <= end_time and each chunk ends no later than the next one   *)
(* of the item starts.                                                     *)
C4_TemporalNonOverlap ==
    \A k \in Started :
        (WellFormed(items[k]) /\ Monotonic(items[k].timestamps)) =>
            /\ \A j \in 1..Len(gens[k].out) :
                   gens[k].out[j].start_time.num <= gens[k].out[j].end_time.num
            /\ \A j \in 1..(Len(gens[k].out) - 1) :
                   gens[k].out[j].end_time.num
                       <= gens[k].out[j + 1].start_time.num

-----------------------------------------------------------------------------
(* C5: the size of every non-degenerate chunk is the number of             *)
(* whitespace-separated words of its text, split anew.                     *)
C5_SizeIsWordCountOfText ==
    \A k \in Started :
        \A j \in 1..Len(gens[k].out) :
            ~Degenerate(gens[k].out[j]) =>
                gens[k].out[j].length_of_block.num
                    = Len(Split(gens[k].out[j].block.chars))

\* A tail-merged chunk of several lines, one of them with leading and
\* doubled whitespace, emitted after a close.
C5_Witness ==
    \E k \in Started :
        /\ Len(gens[k].out) = 2
        /\ gens[k].log[2].branch = "tail"
        /\ Len(gens[k].log[2].lines) >= 3
        /\ \E q \in 1..Len(gens[k].log[2].lines) :
               gens[k].log[2].lines[q] = PyStr(<<" ", "a", " ", " ", "b">>)
        /\ gens[k].out[2].length_of_block.num >= 4

-----------------------------------------------------------------------------
(* C6: when some line of an item, at any position, is not text, the        *)
(* segmenter yields exactly one record, the sentinel, no normal chunk      *)
(* before or after it, and raises nothing.                                 *)
C6_WholeItemFallback ==
    \A k \in Started :
        ~AllText(items[k].subtitles) =>
            /\ gens[k].pc # "raised"
            /\ gens[k].pc = "done" =>
                   gens[k].out = <<Sentinel(items[k].videoId)>>
            /\ gens[k].pc # "done" => gens[k].out = <<>>

\* The missing line is the last of three, after lines that would close a
\* chunk each, and the intervals do not match the lines either.
C6_Witness ==
    \E k \in Started :
        /\ Len(items[k].subtitles) = 3
        /\ AllText(SubSeq(items[k].subtitles, 1, 2))
        /\ TotalWords(items[k]) >= 2
        /\ ~IsText(items[k].subtitles[3])
        /\ Len(items[k].timestamps) # Len(items[k].subtitles)
        /\ chunker.expected_threshold = 1
        /\ chunker.min_tolerable_threshold = 0
        /\ gens[k].pc = "done"
        /\ gens[k].out = <<Sentinel(items[k].videoId)>>

-----------------------------------------------------------------------------
(* C7: batch containment.                                                  *)

Malformed(item) == ~AllText(item.subtitles)

\* The rows an item owes the table: one sentinel row when it is malformed,
\* otherwise the rows of its own segmentation.
RECURSIVE RowsOwed(_, _)
RowsOwed(c, rows) ==
    IF rows = <<>> THEN <<>>
    ELSE FrameRows(IF Malformed(rows[1])
                   THEN <<Sentinel(rows[1].videoId)>>
                   ELSE RunAlone(c, rows[1], NewGenerator).out)
         \o RowsOwed(c, Tail(rows))

\* get_chunks of a length Chunker raised nothing, and the table it
\* returned holds one sentinel row per malformed item and, for every other
\* item, the rows the item produces alone.
Contained ==
    /\ raised = "none"
    /\ pc = "returned" => table = RowsOwed(chunker, items)

\* C7 as stated, for every collection with a malformed item: it fails
\* when another item has no line at all (zip(*timestamps) cannot be
\* unpacked and the ValueError leaves get_chunks).
C7_ContainedInEveryCollection ==
    (/\ call = "get_chunks"
     /\ chunker.chunk_by = "length"
     /\ \E k \in 1..Len(items) : Malformed(items[k])) => Contained

(* C7, amended: for every collection with a malformed item in which every  *)
(* item without a malformed line is well-formed and has at least one       *)
(* line, get_chunks (length strategy) raises no exception, the table       *)
(* holds exactly one sentinel row for each malformed item, and the rows    *)
(* of every other item are the rows it produces when chunked alone.        *)
C7_BatchContainment ==
    (/\ call = "get_chunks"
     /\ chunker.chunk_by = "length"
     /\ \E k \in 1..Len(items) : Malformed(items[k])
     /\ \A k \in 1..Len(items) :
            Malformed(items[k])
                \/ (WellFormed(items[k]) /\ items[k].subtitles # <<>>))
        => Contained

\* A returned table of a sentinel row and the two rows of a sound item.
C7_Witness ==
    /\ call = "get_chunks"
    /\ chunker.chunk_by = "length"
    /\ pc = "returned"
    /\ Len(items) = 2
    /\ \E k \in 1..2 : Malformed(items[k]) /\ Len(items[k].subtitles) = 2
    /\ \E k \in 1..2 : WellFormed(items[k]) /\ Len(gens[k].out) = 2
    /\ Len(table) = 3

-----------------------------------------------------------------------------
(* C8: an item whose lines and intervals differ in length (here: text     *)
(* lines, at least one) fails with an error raised before any chunk        *)
(* record is emitted: it never yields a record and never ends normally.    *)
(* The code validates nothing, so the mismatch surfaces as an IndexError   *)
(* after chunks were yielded, or not at all.                               *)
C8_MismatchFailsFirst ==
    \A k \in Started :
        (/\ AllText(items[k].subtitles)
         /\ items[k].subtitles # <<>>
         /\ Len(items[k].timestamps) # Len(items[k].subtitles)) =>
            /\ gens[k].out = <<>>
            /\ gens[k].pc # "done"

-----------------------------------------------------------------------------
(* C9: with the strategy "time", calling the segmenter, or get_chunks on   *)
(* a collection of at least one item, fails with NotImplementedError; no   *)
(* chunk record is produced, no table returned, and the length segmenter   *)
(* is never run.                                                           *)
C9_TimeNotImplemented ==
    chunker.chunk_by = "time" =>
        /\ gens = <<>>
        /\ table = <<>>
        /\ pc # "returned"
        /\ pc # "driving"
        /\ pc = "comprehension" => cur = 0
        /\ (pc = "raised" /\ (call = "segment" \/ Len(items) >= 1)) =>
               raised = "NotImplementedError"

\* get_chunks of a time Chunker on two items has raised.
C9_Witness ==
    /\ chunker.chunk_by = "time"
    /\ call = "get_chunks"
    /\ Len(items) = 2
    /\ pc = "raised"
    /\ raised = "NotImplementedError"

-----------------------------------------------------------------------------
(* C10: a small item yields one chunk.                                     *)

\* The tail-merge fired at the first line and its chunk, the only one,
\* covers all lines of the item: every position contributes, in order,
\* from the start of the first interval to the end of the last.
OneChunkCoveringAll(item, g) ==
    /\ g.pc = "done"
    /\ Len(g.out) = 1
    /\ g.log[1].branch = "tail"
    /\ g.log[1].at = 1
    /\ LET ps == g.log[1].positions
           n == Len(item.subtitles)
       IN  /\ {ps[q] : q \in 1..Len(ps)} = 1..n
           /\ \A q \in 1..(Len(ps) - 1) : ps[q] <= ps[q + 1]
           /\ \A q \in 1..Len(ps) : g.log[1].lines[q] = item.subtitles[ps[q]]
           /\ g.out[1].block = PyStr(Join(g.log[1].lines))
           /\ g.out[1].start_time.num = item.timestamps[1][1]
           /\ g.out[1].end_time.num = item.timestamps[n][2]

Small(item) ==
    /\ WellFormed(item)
    /\ TotalWords(item) < chunker.min_tolerable_threshold
    /\ chunker.min_tolerable_threshold < chunker.expected_threshold

\* C10 as stated, for every small well-formed item: it fails for the item
\* of no lines, whose segmentation raises ValueError and emits nothing.
C10_EverySmallItemOneChunk ==
    \A k \in Started :
        (Small(items[k]) /\ Finished(gens[k])) =>
            OneChunkCoveringAll(items[k], gens[k])

(* C10, amended: for a well-formed item of at least one line whose total   *)
(* word count is below min_tolerable_threshold (with                       *)
(* min_tolerable_threshold < expected_threshold), the tail-merge branch    *)
(* fires at the first line and exactly one chunk is emitted, covering all  *)
(* lines of the item.                                                      *)
C10_SmallItemOneChunk ==
    \A k \in Started :
        (Small(items[k]) /\ items[k].subtitles # <<>>) =>
            /\ gens[k].pc \in {"created", "loop", "done"}
            /\ gens[k].pc \in {"created", "loop"} =>
                   gens[k].idx = 0 /\ gens[k].out = <<>>
            /\ gens[k].pc = "done" => OneChunkCoveringAll(items[k], gens[k])

\* Three lines of two words in all under thresholds 3 and 4: one chunk.
C10_Witness ==
    \E k \in Started :
        /\ Small(items[k])
        /\ chunker.min_tolerable_threshold = 3
        /\ Len(items[k].subtitles) = 3
        /\ TotalWords(items[k]) = 2
        /\ gens[k].pc = "done"
        /\ Len(gens[k].out) = 1

-----------------------------------------------------------------------------
(* C11.  One-word lines under a policy E = expected_threshold,             *)
(* M = min_tolerable_threshold.  Line indices in the statements are        *)
(* 0-based; the at of a log entry is the 1-based position of the line.     *)

Max(a, b) == IF a >= b THEN a ELSE b

OneWordPolicy ==
    /\ 0 <= chunker.min_tolerable_threshold
    /\ chunker.min_tolerable_threshold < chunker.expected_threshold

\* What the arithmetic gives for a segmentation g of n one-word lines.
OneWordArithmetic(item, g) ==
    LET n == Len(item.subtitles)
        E == chunker.expected_threshold
        M == chunker.min_tolerable_threshold
    IN  /\ n < E + M =>
              /\ \A j \in 1..Len(g.log) : g.log[j].branch # "close"
              /\ Finished(g) =>
                    /\ g.pc = "done"
                    /\ Len(g.log) = 1
                    /\ Len(g.out) = 1
                    /\ g.log[1].branch = "tail"
                    /\ g.log[1].at = Max(0, n - M - 1) + 1
                    /\ {g.log[1].positions[q] :
                            q \in 1..Len(g.log[1].positions)} = 1..n
                    /\ g.out[1].start_time = PyInt(0)
                    /\ g.out[1].end_time = PyInt(n)
        /\ n = E + M =>
              /\ Finished(g) => g.log # <<>>
              /\ g.log # <<>> =>
                    g.log[1].branch = "close" /\ g.log[1].at = (E - 1) + 1

\* C11 as stated, for every n: it fails for n = 0, where the
\* segmentation raises ValueError and no branch fires.
C11_EveryOneWordItem ==
    \A k \in Started :
        (items[k] \in OneWordItems /\ OneWordPolicy) =>
            OneWordArithmetic(items[k], gens[k])

(* C11, amended: for a policy 0 <= M < E and an item of n >= 1 one-word    *)
(* lines with intervals (i, i + 1): if n < E + M the close branch never    *)
(* fires and the tail-merge branch fires at line index max(0, n - M - 1),  *)
(* giving exactly one chunk covering all n lines with start_time 0 and     *)
(* end_time n; if n = E + M the first emission is a close at line index    *)
(* E - 1.                                                                  *)
C11_ThresholdArithmetic ==
    \A k \in Started :
        (/\ items[k] \in OneWordItems
         /\ items[k].subtitles # <<>>
         /\ OneWordPolicy) =>
            /\ gens[k].pc # "raised"
            /\ OneWordArithmetic(items[k], gens[k])

\* Ten one-word lines under E = 10, M = 5: the tail-merge fires at line
\* index 4 and the one chunk runs from 0 to 10.
C11_Witness ==
    \E k \in Started :
        /\ items[k] \in OneWordItems
        /\ Len(items[k].subtitles) = 10
        /\ chunker.expected_threshold = 10
        /\ chunker.min_tolerable_threshold = 5
        /\ gens[k].pc = "done"
        /\ gens[k].log[1].at = 4 + 1
        /\ gens[k].out[1].end_time = PyInt(10)

-----------------------------------------------------------------------------
(* C12.  The key (videoId, block_number) of the rows of the table.         *)

Key(row) == <<row.videoId, row.block_number>>

DistinctKeys(rows) ==
    \A p, q \in 1..Len(rows) : p # q => Key(rows[p]) # Key(rows[q])

DistinctIds(rows) ==
    \A p, q \in 1..Len(rows) : p # q => rows[p].videoId # rows[q].videoId

\* The number of records the items before the k-th emitted.
RECURSIVE RowsBefore(_)
RowsBefore(k) ==
    IF k = 1 THEN 0 ELSE RowsBefore(k - 1) + Len(gens[k - 1].out)

\* The j-th record an item emitted is a row of the table, under the id of
\* the item and the number j - 1.
RankedPerItem ==
    /\ Len(table) = RowsBefore(Len(items) + 1)
    /\ \A k \in 1..Len(items) :
           \A j \in 1..Len(gens[k].out) :
               LET row == table[RowsBefore(k) + j]
               IN  /\ row.videoId = items[k].videoId
                   /\ row.block_number = j - 1
                   /\ row.block = gens[k].out[j].block
                   /\ row.start_time = gens[k].out[j].start_time
                   /\ row.end_time = gens[k].out[j].end_time

\* C12 as stated, for every input collection: it fails when two rows of
\* the input frame carry the same videoId, both items then own a row
\* numbered 0.
C12_KeysOfEveryCollection ==
    (call = "get_chunks" /\ pc = "returned") =>
        DistinctKeys(table) /\ RankedPerItem

(* C12, amended: in the table returned by get_chunks, for every input      *)
(* collection whose item ids are pairwise distinct, every row has a        *)
(* distinct key (videoId, block_number), and a row's block_number equals   *)
(* the 0-based position of that chunk in the emission order of its own     *)
(* item's segmentation: it restarts at 0 for each item.                    *)
C12_DistinctKeysPerItemRank ==
    (call = "get_chunks" /\ pc = "returned" /\ DistinctIds(items)) =>
        DistinctKeys(table) /\ RankedPerItem

\* A returned table of two items of two chunks each: the numbers of the
\* second item start again at 0.
C12_Witness ==
    /\ call = "get_chunks"
    /\ pc = "returned"
    /\ Len(items) = 2
    /\ DistinctIds(items)
    /\ Len(gens[1].out) = 2
    /\ Len(gens[2].out) = 2
    /\ table[3].block_number = 0
    /\ table[4].block_number = 1

-----------------------------------------------------------------------------
(* C13.  The state dict of _chunk_by_length is local to each generator,    *)
(* and get_chunks keeps nothing between calls.                             *)

IsPrefix(xs, ys) ==
    /\ Len(xs) <= Len(ys)
    /\ \A j \in 1..Len(xs) : xs[j] = ys[j]

\* Two generators consumed in turns: each has emitted, so far, what it
\* emits when run alone, and ends as it ends alone.
IndependentRuns ==
    call = "interleave" =>
        \A k \in Started :
            LET alone == RunAlone(chunker, items[k], NewGenerator)
            IN  /\ IsPrefix(gens[k].out, alone.out)
                /\ Finished(gens[k]) =>
                       /\ gens[k].out = alone.out
                       /\ gens[k].pc = alone.pc
                       /\ gens[k].exc = alone.exc

\* get_chunks called again on the same frame raises nothing and returns
\* the table it returned before.
Idempotent ==
    earlier # <<>> =>
        /\ pc # "raised"
        /\ pc = "returned" => table = earlier[1]

\* No step after the construction writes the thresholds, and no step
\* after the call writes the lines or the intervals.
InputsUntouched ==
    /\ pc # "new" => chunker' = chunker
    /\ call # "none" => items' = items

(* C13: segmentations share no mutable state.  Two generators of the same  *)
(* Chunker advanced in any step-by-step interleaving yield, each, the      *)
(* record sequence of the generator run alone; get_chunks re-run on the    *)
(* same items returns a table equal row for row to the prior one; and the  *)
(* thresholds of the Chunker and the input lines are left unchanged.       *)
C13_NoSharedMutableState ==
    /\ [](IndependentRuns /\ Idempotent)
    /\ [][InputsUntouched]_vars

\* The first generator is suspended after its first chunk, with a line
\* still to visit, while the second has already emitted two chunks and
\* ended.
C13_Witness ==
    /\ call = "interleave"
    /\ Len(gens) = 2
    /\ gens[1].pc = "loop"
    /\ gens[1].idx = 1
    /\ Len(gens[1].out) = 1
    /\ gens[2].pc = "done"
    /\ Len(gens[2].out) = 2

-----------------------------------------------------------------------------
(* C14.  Chunker.__init__, against the arguments it was given.             *)

\* The value a threshold must have: the one supplied, else the default of
\* the strategy.
Supplied(key, ifLength, ifTime) ==
    IF key \in DOMAIN given.kwargs THEN given.kwargs[key]
    ELSE IF given.chunk_by = "length" THEN ifLength ELSE ifTime

(* C14: constructing a Chunker succeeds if and only if the strategy is     *)
(* "length" or "time", any other value failing at construction with an     *)
(* AssertionError; on success each threshold is, independently, the value  *)
(* the caller supplied, else the default of the strategy (length 225 and   *)
(* 150, time 60 and 45); no relation between the two is enforced.          *)
C14_PolicyConstruction ==
    pc # "new" =>
        IF given.chunk_by \in {"length", "time"}
        THEN /\ ~(pc = "raised" /\ raised = "AssertionError")
             /\ chunker.chunk_by = given.chunk_by
             /\ chunker.expected_threshold =
                    Supplied("expected_threshold", 225, 60)
             /\ chunker.min_tolerable_threshold =
                    Supplied("min_tolerable_threshold", 150, 45)
        ELSE /\ pc = "raised"
             /\ raised = "AssertionError"
             /\ chunker = NoChunker

\* A time Chunker given only min_tolerable_threshold = 3 is built with
\* the default 60 beside it.
C14_Witness ==
    /\ pc = "ready"
    /\ given.chunk_by = "time"
    /\ DOMAIN given.kwargs = {"min_tolerable_threshold"}
    /\ chunker.expected_threshold = 60
    /\ chunker.min_tolerable_threshold = 3

-----------------------------------------------------------------------------
(* C15.  The for loop ends without a break and the open block holds lines. *)

\* The positions of the lines some emitted chunk contains.
EmittedPositions(log) ==
    UNION {{log[j].positions[q] : q \in 1..Len(log[j].positions)} :
               j \in 1..Len(log)}

\* The generator ended by the end of the loop: every line visited, and
\* neither the tail-merge branch nor the handler ended it.
Exhausted(item, g) ==
    /\ g.pc = "done"
    /\ g.idx = Len(item.subtitles)
    /\ \A j \in 1..Len(g.log) : g.log[j].branch = "close"

\* The lines of the open block of an exhausted generator are in no chunk,
\* and it emitted one chunk per close.
OpenBlockDropped ==
    \A k \in Started :
        (Exhausted(items[k], gens[k]) /\ gens[k].block # <<>>) =>
            /\ \A q \in 1..Len(gens[k].positions) :
                   gens[k].positions[q] \notin EmittedPositions(gens[k].log)
            /\ Len(gens[k].out) = Len(gens[k].log)

\* The step on which the loop ends emits nothing and leaves the chunks
\* emitted before as they were.
ExhaustionEmitsNothing ==
    \A k \in Started :
        (/\ k <= Len(gens')
         /\ gens[k].pc = "loop"
         /\ gens[k].idx = Len(items[k].subtitles)
         /\ gens'[k].pc = "done") =>
            /\ gens'[k].out = gens[k].out
            /\ gens'[k].block = gens[k].block

(* C15: no flush on exhaustion.  When _chunk_by_length reaches the end of  *)
(* the lines of an item without the tail-merge branch ever having fired    *)
(* while the open block is non-empty, the lines of that block are in no    *)
(* emitted chunk: the generator ends without emitting them, and the        *)
(* chunks emitted earlier are unchanged.                                   *)
C15_NoFlushOnExhaustion ==
    /\ []OpenBlockDropped
    /\ [][ExhaustionEmitsNothing]_vars

\* Three one-word lines under expected 2 and min_tolerable -1: the first
\* two are closed into a chunk, the third is left in the open block when
\* the loop ends.
C15_Witness ==
    \E k \in Started :
        /\ Exhausted(items[k], gens[k])
        /\ chunker.expected_threshold = 2
        /\ chunker.min_tolerable_threshold = 0 - 1
        /\ Len(items[k].subtitles) = 3
        /\ Len(gens[k].out) = 1
        /\ gens[k].positions = <<3>>

-----------------------------------------------------------------------------
(* C16.  Which branch ends the stream of a well-formed item of at least    *)
(* one line.                                                               *)

Sound(item) == WellFormed(item) /\ item.subtitles # <<>>

\* The tail-merge branch fired once, last, up to the end of the last
\* interval, when the generator has ended; and never before its end.
EndsByTailMerge(item, g) ==
    /\ g.pc # "raised"
    /\ \A j \in 1..Len(g.log) :
           g.log[j].branch = "tail" => (j = Len(g.log) /\ g.pc = "done")
    /\ g.pc = "done" =>
           /\ g.log # <<>>
           /\ g.log[Len(g.log)].branch = "tail"
           /\ Len(g.out) = Len(g.log)
           /\ g.out[Len(g.out)].end_time =
                  PyInt(item.timestamps[Len(item.timestamps)][2])

\* No line is left out of the chunks when the generator has ended.
NothingUnemitted(item, g) ==
    g.pc = "done" => EmittedPositions(g.log) = 1..Len(item.subtitles)

\* A trailing block is dropped only under a negative min_tolerable_threshold.
DroppedOnlyBelowZero ==
    \A k \in Started :
        (Exhausted(items[k], gens[k]) /\ gens[k].block # <<>>) =>
            chunker.min_tolerable_threshold < 0

\* C16 as stated, for min_tolerable_threshold >= 0: it fails at 0, where
\* the close branch takes the last line (one line "a" under expected 1)
\* and the tail-merge branch never fires.
C16_TailMergeFromZero ==
    /\ \A k \in Started :
           (Sound(items[k]) /\ chunker.min_tolerable_threshold >= 0) =>
               /\ EndsByTailMerge(items[k], gens[k])
               /\ NothingUnemitted(items[k], gens[k])
    /\ DroppedOnlyBelowZero

(* C16, amended: for every well-formed item of at least one line and       *)
(* every policy with min_tolerable_threshold > 0, the tail-merge branch    *)
(* fires exactly once, its chunk is the last record emitted and its        *)
(* end_time is the end of the last interval of the item; for               *)
(* min_tolerable_threshold >= 0 the loop never ends with un-emitted        *)
(* lines; a dropped trailing block is reachable only when                  *)
(* min_tolerable_threshold < 0.                                            *)
C16_TailMergeTerminates ==
    /\ \A k \in Started :
           /\ (Sound(items[k]) /\ chunker.min_tolerable_threshold > 0) =>
                  EndsByTailMerge(items[k], gens[k])
           /\ (Sound(items[k]) /\ chunker.min_tolerable_threshold >= 0) =>
                  /\ gens[k].pc # "raised"
                  /\ NothingUnemitted(items[k], gens[k])
    /\ DroppedOnlyBelowZero

\* Three one-word lines under expected 1 and min_tolerable 1: two closes,
\* then the tail-merge on the last line.
C16_Witness ==
    \E k \in Started :
        /\ Sound(items[k])
        /\ chunker.expected_threshold = 1
        /\ chunker.min_tolerable_threshold = 1
        /\ Len(items[k].subtitles) = 3
        /\ gens[k].pc = "done"
        /\ Len(gens[k].log) = 3
        /\ gens[k].log[3].branch = "tail"

-----------------------------------------------------------------------------
(* C17.  The chunks of the close branch.                                   *)

\* The words of the lines after position p.
WordsAfter(item, p) ==
    SumStripSplitLen(SubSeq(item.subtitles, p + 1, Len(item.subtitles)))

\* The words of the lines up to position p.
WordsUpTo(item, p) == SumStripSplitLen(SubSeq(item.subtitles, 1, p))

\* The j-th emission of g is a close whose chunk is long enough and leaves
\* enough words unvisited.
CloseJustified(item, g, j) ==
    /\ g.out[j].length_of_block.num >= chunker.expected_threshold
    /\ WordsAfter(item, g.log[j].at) >= chunker.min_tolerable_threshold

\* Without its last line the chunk was still too short to close.
ClosedAtEarliestLine(item, g, j) ==
    g.out[j].length_of_block.num
        - StripSplitLen(item.subtitles[g.log[j].at])
            < chunker.expected_threshold

\* Right after a close the open block is empty, and covered_length counts
\* every line visited so far.
ResetAfterClose(item, g) ==
    /\ (/\ g.pc = "loop"
        /\ g.log # <<>>
        /\ g.log[Len(g.log)].at = g.idx) =>
           /\ g.block = <<>>
           /\ g.length_of_block = 0
    /\ (g.pc \in {"loop", "done"} /\ AllText(item.subtitles)) =>
           g.covered_length = WordsUpTo(item, g.idx)

\* C17 as stated, for every policy: the earliest-line clause fails when
\* expected_threshold <= 0, where a block of one line closes although the
\* empty block before it already met the threshold.
C17_EarliestCloseAnyPolicy ==
    \A k \in Started :
        /\ ResetAfterClose(items[k], gens[k])
        /\ \A j \in 1..Len(gens[k].log) :
               gens[k].log[j].branch = "close" =>
                   /\ CloseJustified(items[k], gens[k], j)
                   /\ ClosedAtEarliestLine(items[k], gens[k], j)

(* C17, amended: every chunk emitted by the close branch has size >=       *)
(* expected_threshold and the words still unvisited after it total >=      *)
(* min_tolerable_threshold; when expected_threshold > 0 it is closed at    *)
(* the earliest possible line, its size minus the word count of its last   *)
(* contributing line being < expected_threshold; and after the close the   *)
(* open block is empty while covered_length is not reset.                  *)
C17_EarliestClose ==
    \A k \in Started :
        /\ ResetAfterClose(items[k], gens[k])
        /\ \A j \in 1..Len(gens[k].log) :
               gens[k].log[j].branch = "close" =>
                   /\ CloseJustified(items[k], gens[k], j)
                   /\ chunker.expected_threshold > 0 =>
                          ClosedAtEarliestLine(items[k], gens[k], j)

\* Two one-word lines of three closed under expected 2: the generator is
\* suspended with an empty block and covered_length 2.
C17_Witness ==
    \E k \in Started :
        /\ chunker.expected_threshold = 2
        /\ Len(items[k].subtitles) = 3
        /\ gens[k].pc = "loop"
        /\ gens[k].idx = 2
        /\ Len(gens[k].log) = 1
        /\ gens[k].log[1].branch = "close"
        /\ gens[k].out[1].length_of_block = PyInt(2)
        /\ gens[k].block = <<>>
        /\ gens[k].covered_length = 2

====
